---- MODULE Spec2Model ----
(***************************************************************************)
(* State-machine model of the staking-pool program: the instruction        *)
(* dispatcher (processor.rs), the Borsh wire codec of the instruction      *)
(* (instruction.rs) and of the pool record (state.rs), and the error       *)
(* mapping (error.rs).                                                      *)
(*                                                                         *)
(* The host runtime hands the program a list of accounts and instruction   *)
(* bytes (Invoke), the program runs to completion (ProcessInstruction),    *)
(* and the host takes the result back (Return).  Invocations are           *)
(* serialized by the host, so one is in flight at a time.                  *)
(*                                                                         *)
(* TLC integers are 32 bits wide: the u64 values of the model are drawn    *)
(* from samples below 2^31.  The program does no arithmetic on them; the   *)
(* codec still writes and reads all 8 bytes.                               *)
(***************************************************************************)
EXTENDS Integers, Sequences, FiniteSets, TLC

VARIABLES
    data,              \* AccountInfo.data of every account: account name -> bytes
    owner,             \* AccountInfo.owner of every account: account name -> Pubkey
    pc,                \* "idle" | "invoked" | "returned"
    accounts,          \* the accounts slice of the invocation in flight
    instruction_data,  \* the instruction bytes of the invocation in flight
    result,            \* the ProgramResult of the invocation in flight
    before,            \* history: data as it was when the invocation started
    first_init,        \* history: signer key and rate of the first Ok on the pool
    first_valid,       \* history: signer key of the first Initialize handed a signer and the pool
    ok_count,          \* history: how many invocations returned Ok (counted up to MaxOk)
    rec,               \* codec check: the record under test
    buf,               \* codec check: its encoding
    dec                \* codec check: the decoding of buf

vars == <<data, owner, pc, accounts, instruction_data, result, before,
          first_init, first_valid, ok_count, rec, buf, dec>>

progVars == <<data, owner, pc, accounts, instruction_data, result, before,
              first_init, first_valid, ok_count>>
codecVars == <<rec, buf, dec>>

(***************************************************************************)
(* Bounds of the model.                                                    *)
(***************************************************************************)
MaxAccounts == 2
MaxOk == 2

(***************************************************************************)
(* Widths of the wire format.                                              *)
(***************************************************************************)
PUBKEY_BYTES == 32
U64_BYTES == 8

None == [tag |-> "None"]

RECURSIVE Zeros(_)
Zeros(n) == IF n = 0 THEN <<>> ELSE <<0>> \o Zeros(n - 1)

Drop(s, n) == SubSeq(s, n + 1, Len(s))
Take(s, n) == SubSeq(s, 1, n)

(***************************************************************************)
(* Identities.  A Pubkey is its 32 bytes.                                  *)
(***************************************************************************)
Pubkey(i) == <<i>> \o Zeros(PUBKEY_BYTES - 2) \o <<255 - i>>

program_id == Pubkey(1)
SystemProgram == Zeros(PUBKEY_BYTES)
OtherProgram == Pubkey(2)

Wallets == {"A", "B"}
Accounts == Wallets \cup {"P", "X"}

AccountKey(a) ==
    CASE a = "A" -> Pubkey(10)
      [] a = "B" -> Pubkey(11)
      [] a = "P" -> Pubkey(20)
      [] a = "X" -> Pubkey(21)

(***************************************************************************)
(* error.rs: the declared variants, and what processor.rs returns.         *)
(***************************************************************************)
StakingError == <<"InvalidInstruction", "InvalidSigner", "InvalidOwner", "AccountInitialized">>

\* impl From<StakingError> for ProgramError: Custom(err as u32), the variant's
\* position in the declaration.  A name the enum does not declare has no code.
ErrorCode(e) ==
    IF \E i \in 1..Len(StakingError) : StakingError[i] = e
    THEN (CHOOSE i \in 1..Len(StakingError) : StakingError[i] = e) - 1
    ELSE -1

Ok == [tag |-> "Ok"]
Custom(e) == [tag |-> "Custom", error |-> e]
BorshIoError == [tag |-> "BorshIoError"]
NotEnoughAccountKeys == [tag |-> "NotEnoughAccountKeys"]
NoResult == [tag |-> "none"]

(***************************************************************************)
(* Borsh primitives used by the derived codecs.  A deserializer consumes   *)
(* a prefix of the bytes and returns the value and the rest, or fails.     *)
(***************************************************************************)
DecodeErr == [ok |-> FALSE]
Decoded(v, rest) == [ok |-> TRUE, val |-> v, rest |-> rest]

RECURSIVE to_le_bytes(_, _)
to_le_bytes(v, n) ==
    IF n = 0 THEN <<>> ELSE <<v % 256>> \o to_le_bytes(v \div 256, n - 1)

RECURSIVE from_le_bytes(_)
from_le_bytes(b) ==
    IF b = <<>> THEN 0 ELSE b[1] + 256 * from_le_bytes(Tail(b))

u64_serialize(v) == to_le_bytes(v, U64_BYTES)

\* Fault variant of u64_deserialize: a 4-byte integer is read.
u64_deserialize_as_u32(b) ==
    IF Len(b) < 4 THEN DecodeErr
    ELSE Decoded(from_le_bytes(Take(b, 4)), Drop(b, 4))

u64_deserialize(b) ==
    IF Len(b) < U64_BYTES THEN DecodeErr
    ELSE Decoded(from_le_bytes(Take(b, U64_BYTES)), Drop(b, U64_BYTES))

Pubkey_serialize(k) == k

Pubkey_deserialize(b) ==
    IF Len(b) < PUBKEY_BYTES THEN DecodeErr
    ELSE Decoded(Take(b, PUBKEY_BYTES), Drop(b, PUBKEY_BYTES))

(***************************************************************************)
(* The is_initialized flag.  processor.rs reads it (is_initialized()) and  *)
(* sets it (.is_initialized = true); the struct declaration under src/     *)
(* carries no such field, so its place and encoding are taken from the     *)
(* specification: one trailing byte, 0 = false, 1 = true.                  *)
(***************************************************************************)
is_initialized_serialize(flag) == IF flag THEN <<1>> ELSE <<0>>

is_initialized_deserialize(b) ==
    IF Len(b) < 1 THEN DecodeErr
    ELSE IF b[1] = 0 THEN Decoded(FALSE, Drop(b, 1))
    ELSE IF b[1] = 1 THEN Decoded(TRUE, Drop(b, 1))
    ELSE DecodeErr

is_initialized(r) == r.is_initialized

(***************************************************************************)
(* instruction.rs: #[derive(BorshSerialize, BorshDeserialize)] enum        *)
(* Instruction.  A one-byte variant index in declaration order, then the   *)
(* variant's fields.                                                       *)
(***************************************************************************)
Initialize(r) == [variant |-> "Initialize", rewards_per_token |-> r]
CreateUser == [variant |-> "CreateUser"]
Stake(a) == [variant |-> "Stake", amount |-> a]
Unstake(a) == [variant |-> "Unstake", amount |-> a]
Claim == [variant |-> "Claim"]

Instruction_serialize(i) ==
    CASE i.variant = "Initialize" -> <<0>> \o u64_serialize(i.rewards_per_token)
      [] i.variant = "CreateUser" -> <<1>>
      [] i.variant = "Stake" -> <<2>> \o u64_serialize(i.amount)
      [] i.variant = "Unstake" -> <<3>> \o u64_serialize(i.amount)
      [] i.variant = "Claim" -> <<4>>

\* Fault variant of Instruction_deserialize: the indexes of Stake and Unstake
\* are exchanged.
Instruction_deserialize_reordered(b) ==
    IF Len(b) < 1 THEN DecodeErr
    ELSE LET tag == b[1]
             payload == u64_deserialize(Drop(b, 1))
         IN  CASE tag = 0 -> IF payload.ok
                             THEN Decoded(Initialize(payload.val), payload.rest)
                             ELSE DecodeErr
               [] tag = 1 -> Decoded(CreateUser, Drop(b, 1))
               [] tag = 3 -> IF payload.ok
                             THEN Decoded(Stake(payload.val), payload.rest)
                             ELSE DecodeErr
               [] tag = 2 -> IF payload.ok
                             THEN Decoded(Unstake(payload.val), payload.rest)
                             ELSE DecodeErr
               [] tag = 4 -> Decoded(Claim, Drop(b, 1))
               [] OTHER -> DecodeErr

Instruction_deserialize(b) ==
    IF Len(b) < 1 THEN DecodeErr
    ELSE LET tag == b[1]
             payload == u64_deserialize(Drop(b, 1))
         IN  CASE tag = 0 -> IF payload.ok
                             THEN Decoded(Initialize(payload.val), payload.rest)
                             ELSE DecodeErr
               [] tag = 1 -> Decoded(CreateUser, Drop(b, 1))
               [] tag = 2 -> IF payload.ok
                             THEN Decoded(Stake(payload.val), payload.rest)
                             ELSE DecodeErr
               [] tag = 3 -> IF payload.ok
                             THEN Decoded(Unstake(payload.val), payload.rest)
                             ELSE DecodeErr
               [] tag = 4 -> Decoded(Claim, Drop(b, 1))
               [] OTHER -> DecodeErr

\* Fault variant of Instruction_try_from_slice: bytes left over are ignored.
Instruction_try_from_slice_lenient(b) ==
    LET d == Instruction_deserialize(b)
    IN  IF d.ok THEN Decoded(d.val, <<>>) ELSE DecodeErr

\* BorshDeserialize::try_from_slice: deserialize, then fail on bytes left over.
Instruction_try_from_slice(b) ==
    LET d == Instruction_deserialize(b)
    IN  IF d.ok /\ d.rest = <<>> THEN d ELSE DecodeErr

(***************************************************************************)
(* state.rs: #[derive(BorshDeserialize, BorshSerialize)] struct            *)
(* PoolStorageAccount.  The fields in declaration order, no padding.       *)
(***************************************************************************)
PoolStorageAccount(authority, staked, users, rate, flag) ==
    [pool_authority |-> authority, total_staked |-> staked, user_count |-> users,
     rewards_per_token |-> rate, is_initialized |-> flag]

\* Fault variant of PoolStorageAccount_serialize: user_count is written
\* before total_staked.
PoolStorageAccount_serialize_swapped(r) ==
    Pubkey_serialize(r.pool_authority)
        \o u64_serialize(r.user_count)
        \o u64_serialize(r.total_staked)
        \o u64_serialize(r.rewards_per_token)
        \o is_initialized_serialize(r.is_initialized)

\* The derived encoding of the struct as state.rs declares it: its four fields.
PoolStorageAccount_declared_serialize(r) ==
    Pubkey_serialize(r.pool_authority)
        \o u64_serialize(r.total_staked)
        \o u64_serialize(r.user_count)
        \o u64_serialize(r.rewards_per_token)

\* The encoding of the record as processor.rs uses it: the declared fields,
\* then the flag.
PoolStorageAccount_serialize(r) ==
    PoolStorageAccount_declared_serialize(r)
        \o is_initialized_serialize(r.is_initialized)

PoolStorageAccount_deserialize(b) ==
    LET f1 == Pubkey_deserialize(b)
        f2 == u64_deserialize(f1.rest)
        f3 == u64_deserialize(f2.rest)
        f4 == u64_deserialize(f3.rest)
        f5 == is_initialized_deserialize(f4.rest)
    IN  IF ~f1.ok THEN DecodeErr
        ELSE IF ~f2.ok THEN DecodeErr
        ELSE IF ~f3.ok THEN DecodeErr
        ELSE IF ~f4.ok THEN DecodeErr
        ELSE IF ~f5.ok THEN DecodeErr
        ELSE Decoded(PoolStorageAccount(f1.val, f2.val, f3.val, f4.val, f5.val), f5.rest)

\* Fault variant of PoolStorageAccount_try_from_slice: bytes left over are
\* ignored.
PoolStorageAccount_try_from_slice_lenient(b) ==
    LET d == PoolStorageAccount_deserialize(b)
    IN  IF d.ok THEN Decoded(d.val, <<>>) ELSE DecodeErr

PoolStorageAccount_try_from_slice(b) ==
    LET d == PoolStorageAccount_deserialize(b)
    IN  IF d.ok /\ d.rest = <<>> THEN d ELSE DecodeErr

\* The encoded size of the record.
RecordLen == PUBKEY_BYTES + 3 * U64_BYTES + 1

\* A freshly provisioned storage account: the record's size, all zero.
ZeroBuffer == Zeros(RecordLen)

(***************************************************************************)
(* std::io::Write for &mut [u8], as serialize(&mut &mut data[..]) uses it: *)
(* the bytes overwrite the front of the buffer; a buffer too short takes   *)
(* what fits and the write fails.                                          *)
(***************************************************************************)
slice_write(buffer, bytes) ==
    IF Len(bytes) <= Len(buffer)
    THEN [ok |-> TRUE, buffer |-> bytes \o Drop(buffer, Len(bytes))]
    ELSE [ok |-> FALSE, buffer |-> Take(bytes, Len(buffer))]

(***************************************************************************)
(* processor.rs                                                            *)
(***************************************************************************)
\* An AccountInfo of the accounts slice: which account, and its signer flag.
AccountInfo(a, signs) == [acct |-> a, is_signer |-> signs]

\* A handler's outcome: the ProgramResult and the account data it leaves.
Outcome(res, d) == [result |-> res, data |-> d]

\* Fault variant of signer_check: the flag is not looked at.
signer_check_skipped(signer) == TRUE

\* if !signer.is_signer
signer_check(signer) == signer.is_signer

\* Fault variant of owner_check: the owner is not looked at.
owner_check_skipped(storage) == TRUE

\* if storage.owner != program_id
owner_check(storage) == owner[storage.acct] = program_id

\* Fault variant of lifecycle_guard: the guard never rejects.
lifecycle_guard_skipped(storage_data) == FALSE

\* if storage_data.is_initialized()
lifecycle_guard(storage_data) == is_initialized(storage_data)

\* Fault variant of initialized_record: the initializer is counted as a user.
initialized_record_counting_user(storage_data, signer, rewards_per_token) ==
    [storage_data EXCEPT !.pool_authority = AccountKey(signer.acct),
                         !.total_staked = 0,
                         !.user_count = 1,
                         !.rewards_per_token = rewards_per_token,
                         !.is_initialized = TRUE]

\* Fault variant of initialized_record: the rate is not assigned.
initialized_record_without_rate(storage_data, signer, rewards_per_token) ==
    [storage_data EXCEPT !.pool_authority = AccountKey(signer.acct),
                         !.total_staked = 0,
                         !.user_count = 0,
                         !.is_initialized = TRUE]

\* The five assignments to storage_data.
initialized_record(storage_data, signer, rewards_per_token) ==
    [storage_data EXCEPT !.pool_authority = AccountKey(signer.acct),
                         !.total_staked = 0,
                         !.user_count = 0,
                         !.rewards_per_token = rewards_per_token,
                         !.is_initialized = TRUE]

\* storage_data.serialize(&mut &mut storage.data.borrow_mut()[..])?
store_record(storage, storage_data) ==
    LET w == slice_write(data[storage.acct], PoolStorageAccount_serialize(storage_data))
        written == [data EXCEPT ![storage.acct] = w.buffer]
    IN  IF w.ok THEN Outcome(Ok, written) ELSE Outcome(BorshIoError, written)

\* Fault variant of process_initialize_pool: both accounts are fetched before
\* the signer is looked at.
process_initialize_pool_fetch_first(accts, rewards_per_token) ==
    IF Len(accts) < 2 THEN Outcome(NotEnoughAccountKeys, data)
    ELSE LET signer == accts[1]
             storage == accts[2]
             decoded == PoolStorageAccount_try_from_slice(data[storage.acct])
         IN  IF ~signer_check(signer) THEN Outcome(Custom("InvalidSigner"), data)
             ELSE IF ~owner_check(storage) THEN Outcome(Custom("InvalidOwner"), data)
             ELSE IF ~decoded.ok THEN Outcome(BorshIoError, data)
             ELSE IF lifecycle_guard(decoded.val)
                  THEN Outcome(Custom("AlreadyInitialized"), data)
             ELSE store_record(storage,
                      initialized_record(decoded.val, signer, rewards_per_token))

\* Fault variant of process_initialize_pool: the record is stored before the
\* lifecycle guard is consulted.
process_initialize_pool_write_first(accts, rewards_per_token) ==
    IF Len(accts) < 1 THEN Outcome(NotEnoughAccountKeys, data)
    ELSE LET signer == accts[1]
         IN  IF ~signer_check(signer) THEN Outcome(Custom("InvalidSigner"), data)
             ELSE IF Len(accts) < 2 THEN Outcome(NotEnoughAccountKeys, data)
             ELSE LET storage == accts[2]
                      decoded == PoolStorageAccount_try_from_slice(data[storage.acct])
                  IN  IF ~owner_check(storage) THEN Outcome(Custom("InvalidOwner"), data)
                      ELSE IF ~decoded.ok THEN Outcome(BorshIoError, data)
                      ELSE LET stored == store_record(storage,
                                   initialized_record(decoded.val, signer, rewards_per_token))
                           IN  IF lifecycle_guard(decoded.val)
                               THEN Outcome(Custom("AlreadyInitialized"), stored.data)
                               ELSE stored

process_initialize_pool(accts, rewards_per_token) ==
    IF Len(accts) < 1 THEN Outcome(NotEnoughAccountKeys, data)
    ELSE LET signer == accts[1]
         IN  IF ~signer_check(signer) THEN Outcome(Custom("InvalidSigner"), data)
             ELSE IF Len(accts) < 2 THEN Outcome(NotEnoughAccountKeys, data)
             ELSE LET storage == accts[2]
                      decoded == PoolStorageAccount_try_from_slice(data[storage.acct])
                  IN  IF ~owner_check(storage) THEN Outcome(Custom("InvalidOwner"), data)
                      ELSE IF ~decoded.ok THEN Outcome(BorshIoError, data)
                      ELSE IF lifecycle_guard(decoded.val)
                           THEN Outcome(Custom("AlreadyInitialized"), data)
                      ELSE store_record(storage,
                               initialized_record(decoded.val, signer, rewards_per_token))

\* Fault variant of unimplemented_result: the unimplemented arms succeed.
unimplemented_result_ok == Ok

\* The fallback arm of the match: _ => Err(StakingError::InvalidInstruction.into())
unimplemented_result == Custom("InvalidInstruction")

process(accts, bytes) ==
    LET instruction == Instruction_try_from_slice(bytes)
    IN  IF ~instruction.ok THEN Outcome(BorshIoError, data)
        ELSE IF instruction.val.variant = "Initialize"
             THEN process_initialize_pool(accts, instruction.val.rewards_per_token)
        ELSE Outcome(unimplemented_result, data)

(***************************************************************************)
(* What the host may hand the program.                                     *)
(***************************************************************************)
SeqsUpTo(S, n) == UNION {[1..k -> S] : k \in 0..n}

AccountInfos == {AccountInfo(a, s) : a \in Accounts, s \in BOOLEAN}
AccountLists == SeqsUpTo(AccountInfos, MaxAccounts)

Rates == {500, 999}
Amounts == {10}

InstructionBytes ==
    {Instruction_serialize(Initialize(r)) : r \in Rates}
        \cup {Instruction_serialize(Stake(a)) : a \in Amounts}
        \cup {Instruction_serialize(Unstake(a)) : a \in Amounts}
        \cup {Instruction_serialize(CreateUser), Instruction_serialize(Claim)}
        \cup {<<>>, <<0>>, <<2, 10>>, <<5>>, <<255>>}
        \cup {Instruction_serialize(Initialize(500)) \o <<7>>, <<1, 0>>, <<4, 9>>}

\* The account X beside the pool: owned by another program and holding an
\* initialized record, or owned by this program with a buffer of the wrong size.
XWorlds ==
    {[owner |-> OtherProgram,
      data |-> PoolStorageAccount_serialize(
                   PoolStorageAccount(AccountKey("B"), 0, 0, 999, TRUE))],
     [owner |-> program_id, data |-> Zeros(RecordLen - 1)],
     [owner |-> program_id, data |-> Zeros(RecordLen + 1)]}

(***************************************************************************)
(* The state machine.                                                      *)
(***************************************************************************)
CodecIdle == rec = None /\ buf = <<>> /\ dec = None

Init ==
    /\ \E x \in XWorlds :
          /\ data = [a \in Accounts |->
                        CASE a = "P" -> ZeroBuffer
                          [] a = "X" -> x.data
                          [] OTHER -> <<>>]
          /\ owner = [a \in Accounts |->
                        CASE a = "P" -> program_id
                          [] a = "X" -> x.owner
                          [] OTHER -> SystemProgram]
    /\ pc = "idle"
    /\ accounts = <<>>
    /\ instruction_data = <<>>
    /\ result = NoResult
    /\ before = data
    /\ first_init = None
    /\ first_valid = None
    /\ ok_count = 0
    /\ CodecIdle

\* entrypoint.rs: the runtime calls process_instruction with a transaction's
\* accounts and instruction bytes.
Invoke ==
    /\ pc = "idle"
    /\ \E accts \in AccountLists, bytes \in InstructionBytes :
          /\ accounts' = accts
          /\ instruction_data' = bytes
    /\ pc' = "invoked"
    /\ before' = data
    /\ result' = NoResult
    /\ UNCHANGED <<data, owner, first_init, first_valid, ok_count, codecVars>>

\* The invocation in flight is an Initialize handed a signer at [0] and the
\* pool at [1].
InitializeForPool ==
    /\ instruction_data \in {Instruction_serialize(Initialize(r)) : r \in Rates}
    /\ Len(accounts) >= 2
    /\ accounts[1].is_signer
    /\ accounts[2].acct = "P"

\* process runs to completion; the history notes the first success on the pool,
\* the first Initialize handed a signer and the pool, and the successes so far.
ProcessInstruction ==
    /\ pc = "invoked"
    /\ LET out == process(accounts, instruction_data)
       IN  /\ data' = out.data
           /\ result' = out.result
           /\ first_init' =
                 IF first_init = None /\ out.result = Ok /\ Len(accounts) >= 2
                    /\ accounts[2].acct = "P"
                 THEN [signer |-> AccountKey(accounts[1].acct),
                       rate |-> Instruction_try_from_slice(instruction_data).val.rewards_per_token]
                 ELSE first_init
           /\ ok_count' =
                 IF out.result = Ok /\ ok_count < MaxOk THEN ok_count + 1 ELSE ok_count
    /\ first_valid' =
          IF first_valid = None /\ InitializeForPool
          THEN [signer |-> AccountKey(accounts[1].acct)]
          ELSE first_valid
    /\ pc' = "returned"
    /\ UNCHANGED <<owner, accounts, instruction_data, before, codecVars>>

\* The host takes the result and the invocation ends.
Return ==
    /\ pc = "returned"
    /\ pc' = "idle"
    /\ accounts' = <<>>
    /\ instruction_data' = <<>>
    /\ result' = NoResult
    /\ before' = data
    /\ UNCHANGED <<data, owner, first_init, first_valid, ok_count, codecVars>>

Next == Invoke \/ ProcessInstruction \/ Return

Spec == Init /\ [][Next]_vars

(***************************************************************************)
(* The record codec on its own: encode a record, decode the bytes.         *)
(***************************************************************************)
U64Samples == {0, 1, 500, 2147483647}
KeySamples == {SystemProgram, AccountKey("A"), AccountKey("B")}

CodecRecords ==
    {PoolStorageAccount(k, s, u, r, f) :
        k \in KeySamples, s \in U64Samples, u \in U64Samples, r \in U64Samples,
        f \in BOOLEAN}

CodecInit ==
    /\ data = [a \in Accounts |-> IF a = "P" THEN ZeroBuffer ELSE <<>>]
    /\ owner = [a \in Accounts |-> IF a = "P" THEN program_id ELSE SystemProgram]
    /\ pc = "idle"
    /\ accounts = <<>>
    /\ instruction_data = <<>>
    /\ result = NoResult
    /\ before = data
    /\ first_init = None
    /\ first_valid = None
    /\ ok_count = 0
    /\ rec \in CodecRecords
    /\ buf = <<>>
    /\ dec = None

ChooseRecord ==
    /\ rec' \in CodecRecords
    /\ buf' = <<>>
    /\ dec' = None
    /\ UNCHANGED progVars

Encode ==
    /\ buf = <<>>
    /\ buf' = PoolStorageAccount_serialize(rec)
    /\ dec' = None
    /\ UNCHANGED <<rec, progVars>>

Decode ==
    /\ buf # <<>>
    /\ dec = None
    /\ dec' = PoolStorageAccount_try_from_slice(buf)
    /\ UNCHANGED <<rec, buf, progVars>>

CodecNext == ChooseRecord \/ Encode \/ Decode

CodecSpec == CodecInit /\ [][CodecNext]_vars

(***************************************************************************)
(* Properties.                                                             *)
(***************************************************************************)
Returned == pc = "returned"

\* The instruction bytes in flight encode Initialize with rate r.
IsInitialize(r) == instruction_data = Instruction_serialize(Initialize(r))
InitializeCall == \E r \in Rates : IsInitialize(r)

\* Account [0] is a signer and account [1] is owned by the program.
ValidAccounts ==
    /\ Len(accounts) >= 2
    /\ accounts[1].is_signer
    /\ owner[accounts[2].acct] = program_id

\* The record in an account's buffer, as the program would read it.
RecordOf(d, a) == PoolStorageAccount_try_from_slice(d[a])
ZeroRecord == PoolStorageAccount(Zeros(PUBKEY_BYTES), 0, 0, 0, FALSE)

\* An Initialize with a signer against the pool P has just returned.
InitializeOnPool ==
    /\ Returned
    /\ InitializeCall
    /\ ValidAccounts
    /\ accounts[2].acct = "P"

\* C1: Initialize against the zero-initialized pool succeeds; a second
\* Initialize against the same pool, with whatever signer and rate, fails with
\* AccountInitialized and leaves the stored record as the first call left it.
C1_InitializeTwice ==
    /\ InitializeOnPool /\ before["P"] = ZeroBuffer => result = Ok
    /\ InitializeOnPool /\ before["P"] # ZeroBuffer =>
          /\ result = Custom("AccountInitialized")
          /\ data = before

\* C2: Initialize{r} with a signer A at [0] and at [1] a program-owned account
\* whose record is not initialized succeeds, and the buffer, overwritten in
\* full, decodes to exactly {A, 0, 0, r, true}.
C2_InitializeWritesRecord ==
    \A r \in Rates :
        (/\ Returned
         /\ IsInitialize(r)
         /\ ValidAccounts
         /\ RecordOf(before, accounts[2].acct).ok
         /\ ~RecordOf(before, accounts[2].acct).val.is_initialized)
        => /\ result = Ok
           /\ Len(data[accounts[2].acct]) = Len(before[accounts[2].acct])
           /\ RecordOf(data, accounts[2].acct) =
                 Decoded(PoolStorageAccount(AccountKey(accounts[1].acct), 0, 0, r, TRUE),
                         <<>>)

C2_Witness ==
    /\ Returned
    /\ IsInitialize(999)
    /\ ValidAccounts
    /\ accounts[1].acct = "B"
    /\ accounts[2].acct = "P"
    /\ before["P"] = ZeroBuffer
    /\ result = Ok

\* C3: Initialize fails with InvalidSigner whenever account [0] is not a
\* signer, whatever account [1] is or holds, and no account's bytes change.
C3_InvalidSignerFirst ==
    (/\ Returned
     /\ InitializeCall
     /\ Len(accounts) >= 1
     /\ ~accounts[1].is_signer)
    => /\ result = Custom("InvalidSigner")
       /\ data = before

\* Account [0] does not sign and account [1] is the pool, already initialized.
C3_Witness ==
    /\ Returned
    /\ InitializeCall
    /\ Len(accounts) = 2
    /\ ~accounts[1].is_signer
    /\ accounts[2].acct = "P"
    /\ RecordOf(before, "P").ok
    /\ RecordOf(before, "P").val.is_initialized
    /\ result = Custom("InvalidSigner")

\* C4: Initialize fails with InvalidOwner whenever account [0] is a signer and
\* account [1] is owned by another identity than the program, also when the
\* record it holds is initialized, and no account's bytes change.
C4_InvalidOwnerBeforeGuard ==
    (/\ Returned
     /\ InitializeCall
     /\ Len(accounts) >= 2
     /\ accounts[1].is_signer
     /\ owner[accounts[2].acct] # program_id)
    => /\ result = Custom("InvalidOwner")
       /\ data = before

\* Account [1] is owned by another program and holds an initialized record.
C4_Witness ==
    /\ Returned
    /\ InitializeCall
    /\ Len(accounts) = 2
    /\ accounts[1].is_signer
    /\ accounts[2].acct = "X"
    /\ owner["X"] = OtherProgram
    /\ RecordOf(before, "X").ok
    /\ RecordOf(before, "X").val.is_initialized
    /\ result = Custom("InvalidOwner")

\* The instruction bytes in flight encode one of the four other variants.
UnimplementedCall ==
    instruction_data \in
        {Instruction_serialize(CreateUser), Instruction_serialize(Claim)}
            \cup {Instruction_serialize(Stake(a)) : a \in Amounts}
            \cup {Instruction_serialize(Unstake(a)) : a \in Amounts}

\* C5: CreateUser, Stake, Unstake and Claim fail with InvalidInstruction,
\* whatever the accounts and the stored state, and no account's bytes change.
C5_UnimplementedRejected ==
    Returned /\ UnimplementedCall
    => /\ result = Custom("InvalidInstruction")
       /\ data = before

\* Stake{10} with a signer and the initialized pool.
C5_Witness ==
    /\ Returned
    /\ instruction_data = Instruction_serialize(Stake(10))
    /\ ValidAccounts
    /\ accounts[2].acct = "P"
    /\ RecordOf(before, "P").val.is_initialized
    /\ result = Custom("InvalidInstruction")

\* Bytes too short for any instruction or for the variant's payload, or with a
\* discriminant above 4.
MalformedBytes == {<<>>, <<0>>, <<2, 10>>, <<5>>, <<255>>}

\* C6: instruction bytes that are too short or carry an out-of-range
\* discriminant fail with InvalidInstruction and no account's bytes change.
C6_MalformedIsInvalidInstruction ==
    Returned /\ instruction_data \in MalformedBytes
    => /\ result = Custom("InvalidInstruction")
       /\ data = before

\* The pool's record, as it is now and as it was when the invocation in flight
\* started (outside an invocation the two are the same bytes).
PoolNow == RecordOf(data, "P")
PoolBefore == RecordOf(before, "P")

\* C7: the pool's is_initialized is false until an Initialize succeeds on it;
\* once true it stays true through every invocation, and pool_authority is the
\* signer of that first successful Initialize and does not change.
C7_InitializedOnceForever ==
    LET now == PoolNow
        was == PoolBefore
    IN  /\ now.ok
        /\ first_init = None => ~now.val.is_initialized
        /\ first_init # None =>
              /\ now.val.is_initialized
              /\ now.val.pool_authority = first_init.signer
        /\ was.ok /\ was.val.is_initialized =>
              /\ now.val.is_initialized
              /\ now.val.pool_authority = was.val.pool_authority
        /\ pc # "returned" => data = before

\* A later Initialize by another signer has been turned away.
C7_Witness ==
    /\ InitializeOnPool
    /\ first_init # None
    /\ AccountKey(accounts[1].acct) # first_init.signer
    /\ result # Ok
    /\ RecordOf(data, "P").val.pool_authority = first_init.signer

\* C8: an invocation that returns a failure leaves every account's bytes as
\* they were when it started.
C8_FailureWritesNothing ==
    Returned /\ result # Ok => data = before

\* A failure past the capability checks: the lifecycle guard rejected.
C8_Witness ==
    /\ InitializeOnPool
    /\ RecordOf(before, "P").val.is_initialized
    /\ result # Ok
    /\ data = before

\* C9: an all-zero buffer of the record's size decodes, to the record with
\* is_initialized false and every field zero, and an Initialize by a signer
\* against such a program-owned account succeeds.
C9_ZeroBufferDecodes ==
    /\ \A a \in Accounts :
          data[a] = ZeroBuffer => RecordOf(data, a) = Decoded(ZeroRecord, <<>>)
    /\ (/\ Returned
        /\ InitializeCall
        /\ ValidAccounts
        /\ before[accounts[2].acct] = ZeroBuffer)
       => result = Ok

C9_Witness ==
    /\ InitializeOnPool
    /\ before["P"] = ZeroBuffer
    /\ RecordOf(before, "P") = Decoded(ZeroRecord, <<>>)
    /\ result = Ok

\* C10: decoding the encoding of a record gives the record back, with no
\* bytes left over.
C10_RoundTrip ==
    dec # None => dec = Decoded(rec, <<>>)

C10_Witness ==
    /\ dec # None
    /\ rec.is_initialized
    /\ rec.pool_authority = AccountKey("A")
    /\ rec.total_staked = 2147483647
    /\ rec.user_count = 1
    /\ rec.rewards_per_token = 500

\* The little-endian value of up to 8 bytes whose upper four are zero.
LittleEndian(b) == b[1] + b[2] * 256 + b[3] * 65536 + b[4] * 16777216
IsLittleEndianOf(b, v) ==
    /\ Len(b) = 8
    /\ \A i \in 5..8 : b[i] = 0
    /\ LittleEndian(b) = v

\* The layout the record encoding is to have: 57 bytes, the authority, the
\* three integers little-endian, the flag byte.
HasRecordLayout(e, r) ==
    /\ Len(e) = 57
    /\ SubSeq(e, 1, 32) = r.pool_authority
    /\ IsLittleEndianOf(SubSeq(e, 33, 40), r.total_staked)
    /\ IsLittleEndianOf(SubSeq(e, 41, 48), r.user_count)
    /\ IsLittleEndianOf(SubSeq(e, 49, 56), r.rewards_per_token)
    /\ e[57] = (IF r.is_initialized THEN 1 ELSE 0)

\* C11: the encoded record is exactly 57 bytes: the 32-byte pool_authority,
\* then total_staked, user_count and rewards_per_token as 8-byte little-endian
\* integers, then one byte for is_initialized (0 or 1).  Stated of the
\* encoding derived from the struct that state.rs declares.
C11_RecordLayout ==
    rec # None => HasRecordLayout(PoolStorageAccount_declared_serialize(rec), rec)

\* The same layout, of the encoding with the flag byte appended.
C11_LayoutWithFlag ==
    buf # <<>> => HasRecordLayout(buf, rec)

\* The decoding of the instruction bytes in flight.
InstructionInFlight == Instruction_try_from_slice(instruction_data)

\* C12: the leading byte selects the variant in declaration order (0
\* Initialize, 1 CreateUser, 2 Stake, 3 Unstake, 4 Claim); Initialize, Stake
\* and Unstake carry the next 8 bytes as a little-endian integer, CreateUser
\* and Claim carry nothing; and the rate a successful Initialize stores is the
\* little-endian value of bytes 1..8 of the instruction.
C12_InstructionDecoding ==
    LET b == instruction_data
        d == InstructionInFlight
    IN  /\ d.ok =>
              CASE b[1] = 0 -> /\ d.val.variant = "Initialize"
                               /\ IsLittleEndianOf(Drop(b, 1), d.val.rewards_per_token)
                [] b[1] = 1 -> d.val.variant = "CreateUser" /\ Len(b) = 1
                [] b[1] = 2 -> /\ d.val.variant = "Stake"
                               /\ IsLittleEndianOf(Drop(b, 1), d.val.amount)
                [] b[1] = 3 -> /\ d.val.variant = "Unstake"
                               /\ IsLittleEndianOf(Drop(b, 1), d.val.amount)
                [] b[1] = 4 -> d.val.variant = "Claim" /\ Len(b) = 1
                [] OTHER -> FALSE
        /\ Returned /\ result = Custom("InvalidInstruction") => b[1] \in 1..4
        /\ Returned /\ result = Ok =>
              /\ b[1] = 0
              /\ RecordOf(data, accounts[2].acct).val.rewards_per_token
                    = LittleEndian(Drop(b, 1))

\* Initialize with payload E7 03 00 .. 00 has stored the rate 999.
C12_Witness ==
    /\ Returned
    /\ instruction_data = <<0, 231, 3, 0, 0, 0, 0, 0, 0>>
    /\ result = Ok
    /\ RecordOf(data, accounts[2].acct).val.rewards_per_token = 999

\* C13: account bytes change during an invocation only if it is an Initialize
\* whose account [0] is a signer, whose account [1] is owned by the program
\* and whose stored record was not initialized when the invocation started;
\* and then only that account's bytes change.
C13_OnlyInitializeWrites ==
    Returned /\ data # before =>
        /\ InitializeCall
        /\ ValidAccounts
        /\ RecordOf(before, accounts[2].acct).ok
        /\ ~RecordOf(before, accounts[2].acct).val.is_initialized
        /\ \A a \in Accounts \ {accounts[2].acct} : data[a] = before[a]

\* An invocation has changed the pool's bytes.
C13_Witness ==
    /\ Returned
    /\ data["P"] # before["P"]
    /\ InitializeCall
    /\ ValidAccounts

\* C14: of the invocations the host serializes against the zero-initialized
\* pool at most one returns success; once an Initialize with a signer at [0]
\* and the pool at [1] has been processed exactly one has, namely the first
\* such Initialize, and its signer is pool_authority.
C14_ExactlyOneSuccess ==
    /\ ok_count <= 1
    /\ first_valid = None => ok_count = 0
    /\ first_valid # None =>
          /\ ok_count = 1
          /\ first_init # None
          /\ first_init.signer = first_valid.signer
          /\ PoolNow.val.pool_authority = first_valid.signer
    /\ first_valid = None => data["P"] = ZeroBuffer
    /\ Returned /\ InitializeForPool /\ before["P"] = ZeroBuffer => result = Ok
    /\ Returned /\ result = Ok => before["P"] = ZeroBuffer /\ InitializeForPool

\* After the first success, an Initialize by another signer on the pool has
\* been turned away.
C14_Witness ==
    /\ Returned
    /\ InitializeForPool
    /\ ok_count = 1
    /\ result # Ok
    /\ first_valid # None
    /\ AccountKey(accounts[1].acct) # first_valid.signer

\* The code the host receives: that of a custom error, or none.
ReportedCode == IF result.tag = "Custom" THEN ErrorCode(result.error) ELSE -1

\* C15: the four failures reach the host as custom errors whose codes are the
\* variants' positions in the declaration (InvalidInstruction 0, InvalidSigner
\* 1, InvalidOwner 2, AccountInitialized 3), so the code tells which check
\* rejected the invocation.
C15_ErrorCodes ==
    /\ ErrorCode("InvalidInstruction") = 0
    /\ ErrorCode("InvalidSigner") = 1
    /\ ErrorCode("InvalidOwner") = 2
    /\ ErrorCode("AccountInitialized") = 3
    /\ Returned /\ UnimplementedCall => ReportedCode = 0
    /\ Returned /\ InitializeCall /\ Len(accounts) >= 1 /\ ~accounts[1].is_signer
          => ReportedCode = 1
    /\ Returned /\ InitializeCall /\ Len(accounts) >= 2 /\ accounts[1].is_signer
          /\ owner[accounts[2].acct] # program_id
          => ReportedCode = 2
    /\ InitializeOnPool /\ before["P"] # ZeroBuffer => ReportedCode = 3

TrailingBytes == {<<0, 244, 1, 0, 0, 0, 0, 0, 0, 7>>, <<1, 0>>, <<4, 9>>}

\* C17: instruction bytes with bytes after a complete encoding are rejected by
\* the decoder, before any handler runs, and no account's bytes change.
C17_TrailingBytesRejected ==
    Returned /\ instruction_data \in TrailingBytes =>
        /\ result = BorshIoError
        /\ data = before

\* Initialize{500} and one more byte, with a signer and the fresh pool.
C17_Witness ==
    /\ Returned
    /\ instruction_data = <<0, 244, 1, 0, 0, 0, 0, 0, 0, 7>>
    /\ ValidAccounts
    /\ accounts[2].acct = "P"
    /\ before["P"] = ZeroBuffer
    /\ result = BorshIoError

\* C18: Initialize by a signer against a program-owned account whose buffer is
\* shorter or longer than the record fails at the decoding of the record and
\* leaves the buffer as it was; a successful Initialize finds and leaves a
\* buffer of exactly the record's size.
C18_WrongSizeRejected ==
    /\ (/\ Returned
        /\ InitializeCall
        /\ ValidAccounts
        /\ Len(before[accounts[2].acct]) # RecordLen)
       => /\ result = BorshIoError
          /\ data = before
    /\ Returned /\ result = Ok =>
          /\ Len(before[accounts[2].acct]) = RecordLen
          /\ Len(data[accounts[2].acct]) = RecordLen

\* The account at [1] is owned by the program and one byte too long.
C18_Witness ==
    /\ Returned
    /\ InitializeCall
    /\ ValidAccounts
    /\ Len(before[accounts[2].acct]) = RecordLen + 1
    /\ result = BorshIoError
    /\ data = before

\* C19: the pool's stored record is the all-zero record until the first
\* successful Initialize and from then on {A, 0, 0, r, true}, A and r being
\* that Initialize's signer and rate, whatever is invoked afterwards.
C19_ReachableRecords ==
    /\ first_init = None => data["P"] = ZeroBuffer /\ PoolNow = Decoded(ZeroRecord, <<>>)
    /\ first_init # None =>
          PoolNow = Decoded(PoolStorageAccount(first_init.signer, 0, 0, first_init.rate, TRUE),
                            <<>>)

\* After the pool was initialized by A with rate 500, an Initialize{999} by B
\* has returned.
C19_Witness ==
    /\ Returned
    /\ IsInitialize(999)
    /\ ValidAccounts
    /\ accounts[1].acct = "B"
    /\ accounts[2].acct = "P"
    /\ first_init # None
    /\ first_init.signer = AccountKey("A")
    /\ first_init.rate = 500
    /\ PoolNow.val.rewards_per_token = 500

====
